---------------------------- MODULE Spec2Model ----------------------------
(***************************************************************************)
(* A model of somnisoft/touch (src/src/touch.c): the option loop of        *)
(* touch_main, the three time resolvers (-r, -t, -d), the timestamp        *)
(* policy and the path loop.                                               *)
(*                                                                         *)
(* Strings are sequences of one-character strings; reading the position    *)
(* after the last character yields NUL, as a C string does.  A time_t is a *)
(* pair <<days, second of day>> (value = days * 86400 + second of day), so *)
(* that years beyond 2038 stay inside TLC's integers; 0 is <<0, 0>> and    *)
(* (time_t)-1 is <<-1, 86399>>.                                            *)
(***************************************************************************)
EXTENDS Integers, Sequences, FiniteSets, TLC

\* Let(v, LAMBDA x : e) is e with x bound to v: a local of the C code that
\* is assigned once and read several times.
Let(v, F(_)) == F(v)

(***************************************************************************)
(* Characters and C strings                                                *)
(***************************************************************************)
NUL == "NUL"

DigitChars == <<"0", "1", "2", "3", "4", "5", "6", "7", "8", "9">>

isdigit(c) == \E k \in 1..10 : DigitChars[k] = c

isspace(c) == c = " "

DigitVal(c) == (CHOOSE k \in 1..10 : DigitChars[k] = c) - 1

\* s[p] of a C string, p counted from 0; strlen(s) is the terminator.
CharAt(s, p) == IF p >= 0 /\ p < Len(s) THEN s[p + 1] ELSE NUL

strlen(s) == Len(s)

\* strchr(s, c) != NULL
strchr(s, c) == \E k \in 1..Len(s) : s[k] = c

(***************************************************************************)
(* time_t and struct timespec                                              *)
(***************************************************************************)
SecPerDay == 24 * 3600

TimeT(d, s) == <<d, s>>

T_ZERO == TimeT(0, 0)

\* (time_t)-1
T_MINUS1 == TimeT(-1, SecPerDay - 1)

\* <time.h>/<sys/stat.h>: UTIME_NOW ((1l << 30) - 1l), UTIME_OMIT ((1l << 30) - 2l)
UTIME_NOW == (2 ^ 30) - 1

UTIME_OMIT == (2 ^ 30) - 2

Timespec(sec, nsec) == [tv_sec |-> sec, tv_nsec |-> nsec]

EXIT_SUCCESS == 0

EXIT_FAILURE == 1

(***************************************************************************)
(* struct tm and mktime                                                    *)
(***************************************************************************)
\* memset(&tm, 0, sizeof(tm)) / struct tm tm = {0}
TmZero ==
  [tm_year |-> 0, tm_mon |-> 0, tm_mday |-> 0, tm_hour |-> 0, tm_min |-> 0,
   tm_sec |-> 0, tm_isdst |-> 0]

\* Days from 1970-01-01 to the civil date y-m-d (m in 1..12); d beyond the
\* month's length counts on into the next month, as mktime normalises it.
DaysFromCivil(y, m, d) ==
  LET yy  == IF m <= 2 THEN y - 1 ELSE y
      era == yy \div 400
      yoe == yy - era * 400
      mp  == IF m > 2 THEN m - 3 ELSE m + 9
      doy == (153 * mp + 2) \div 5 + d - 1
      doe == yoe * 365 + yoe \div 4 - yoe \div 100 + doy
  IN  era * 146097 + doe - 719468

\* The zones of the model: the zone the process starts in (a fixed offset
\* west of Greenwich, no daylight saving rules) and UTC.
LocalWestSec == 5 * 3600

ZoneWestSec(tz) == IF tz = "UTC" THEN 0 ELSE LocalWestSec

\* mktime(&tm) under the TZ context tz.
mktime(tm, tz) ==
  LET days == DaysFromCivil(tm.tm_year + 1900, tm.tm_mon + 1, tm.tm_mday)
      secs == tm.tm_hour * 3600 + tm.tm_min * 60 + tm.tm_sec + ZoneWestSec(tz)
  IN  TimeT(days + secs \div SecPerDay, secs % SecPerDay)


(***************************************************************************)
(* strptime, as the C library the program is built against (glibc)         *)
(* implements the conversions the program uses.                            *)
(***************************************************************************)
RECURSIVE SkipSpace(_, _)
SkipSpace(s, rp) == IF isspace(CharAt(s, rp)) THEN SkipSpace(s, rp + 1) ELSE rp

\* The digit loop of get_number after its first digit: up to n digits in
\* all, stopping as soon as one more digit would exceed the field's maximum.
RECURSIVE GetNumberLoop(_, _, _, _, _)
GetNumberLoop(s, rp, val, n, to) ==
  IF n - 1 > 0 /\ val * 10 <= to /\ isdigit(CharAt(s, rp))
  THEN GetNumberLoop(s, rp + 1, val * 10 + DigitVal(CharAt(s, rp)), n - 1, to)
  ELSE [val |-> val, rp |-> rp]

\* get_number(from, to, n): skips white space, needs at least one digit,
\* fails when the value read is outside from..to.
get_number(s, rp0, from, to, n) ==
  Let(SkipSpace(s, rp0), LAMBDA rp :
    IF ~isdigit(CharAt(s, rp))
    THEN [ok |-> FALSE, val |-> 0, rp |-> rp]
    ELSE Let(GetNumberLoop(s, rp + 1, DigitVal(CharAt(s, rp)), n, to), LAMBDA r :
           [ok |-> r.val >= from /\ r.val <= to, val |-> r.val, rp |-> r.rp]))

StrptimeNull ==
  [ok |-> FALSE, rp |-> 0, tm |-> <<>>, century |-> -1, want_century |-> FALSE]

\* The range and the width of the number a conversion reads:
\* get_number(from, to, n) of the conversion's case.
ConvRange(c) ==
  CASE c = "C" -> <<0, 99, 2>>
    [] c = "y" -> <<0, 99, 2>>
    [] c = "Y" -> <<0, 9999, 4>>
    [] c = "m" -> <<1, 12, 2>>
    [] c = "d" -> <<1, 31, 2>>
    [] c = "H" -> <<0, 23, 2>>
    [] c = "M" -> <<0, 59, 2>>
    [] c = "S" -> <<0, 61, 2>>

\* ConvStore with the pivot of %y one year late: 69 read as 2069.
ConvStore_pivot70(c, st, val) ==
  CASE c = "C" -> [st EXCEPT !.century = val]
    [] c = "y" -> [st EXCEPT !.tm.tm_year = IF val >= 70 THEN val ELSE val + 100,
                             !.want_century = TRUE]
    [] c = "Y" -> [st EXCEPT !.tm.tm_year = val - 1900, !.want_century = FALSE]
    [] c = "m" -> [st EXCEPT !.tm.tm_mon = val - 1]
    [] c = "d" -> [st EXCEPT !.tm.tm_mday = val]
    [] c = "H" -> [st EXCEPT !.tm.tm_hour = val]
    [] c = "M" -> [st EXCEPT !.tm.tm_min = val]
    [] c = "S" -> [st EXCEPT !.tm.tm_sec = val]

\* What a conversion stores once its number val is read.
ConvStore(c, st, val) ==
  CASE c = "C" -> [st EXCEPT !.century = val]
    [] c = "y" -> [st EXCEPT !.tm.tm_year = IF val >= 69 THEN val ELSE val + 100,
                             !.want_century = TRUE]
    [] c = "Y" -> [st EXCEPT !.tm.tm_year = val - 1900, !.want_century = FALSE]
    [] c = "m" -> [st EXCEPT !.tm.tm_mon = val - 1]
    [] c = "d" -> [st EXCEPT !.tm.tm_mday = val]
    [] c = "H" -> [st EXCEPT !.tm.tm_hour = val]
    [] c = "M" -> [st EXCEPT !.tm.tm_min = val]
    [] c = "S" -> [st EXCEPT !.tm.tm_sec = val]

\* One conversion specification %c applied at the cursor of st.
StrptimeConv(s, c, st) ==
  IF c \notin {"C", "y", "Y", "m", "d", "H", "M", "S"}
  THEN StrptimeNull
  ELSE Let(get_number(s, st.rp, ConvRange(c)[1], ConvRange(c)[2], ConvRange(c)[3]),
           LAMBDA r :
             IF r.ok THEN [ConvStore(c, st, r.val) EXCEPT !.rp = r.rp]
             ELSE StrptimeNull)

\* %T is %H:%M:%S
FmtT == <<"%", "H", ":", "%", "M", ":", "%", "S">>

\* The format loop: white space in the format skips any white space of the
\* input, any other character but % must match, % starts a conversion.
RECURSIVE StrptimeLoop(_, _, _, _)
StrptimeLoop(s, fmt, fp, st) ==
  IF ~st.ok \/ fp > Len(fmt)
  THEN st
  ELSE LET c == fmt[fp]
       IN  IF isspace(c)
           THEN StrptimeLoop(s, fmt, fp + 1, [st EXCEPT !.rp = SkipSpace(s, st.rp)])
           ELSE IF c # "%"
           THEN IF CharAt(s, st.rp) = c
                THEN StrptimeLoop(s, fmt, fp + 1, [st EXCEPT !.rp = st.rp + 1])
                ELSE StrptimeNull
           ELSE IF fmt[fp + 1] = "T"
           THEN StrptimeLoop(s, fmt, fp + 2, StrptimeLoop(s, FmtT, 1, st))
           ELSE StrptimeLoop(s, fmt, fp + 2, StrptimeConv(s, fmt[fp + 1], st))

\* strptime(s, fmt, &tm): [ok, rp, tm]; ok = FALSE is the NULL return, rp is
\* the offset of the first character not consumed.
strptime(s, fmt, tm) ==
  Let(StrptimeLoop(s, fmt, 1,
                   [ok |-> TRUE, rp |-> 0, tm |-> tm, century |-> -1,
                    want_century |-> FALSE]),
      LAMBDA st :
        IF ~st.ok
        THEN [ok |-> FALSE, rp |-> 0, tm |-> tm]
        ELSE [ok |-> TRUE, rp |-> st.rp,
              tm |-> IF st.century # -1 /\ st.want_century
                     THEN [st.tm EXCEPT !.tm_year =
                             (st.tm.tm_year % 100) + (st.century - 19) * 100]
                     ELSE IF st.century # -1
                     THEN [st.tm EXCEPT !.tm_year = (st.century - 19) * 100]
                     ELSE st.tm])

(***************************************************************************)
(* Program constants                                                       *)
(***************************************************************************)
\* MAX_FRAC_CHAR_LEN = ((size_t)(log10(LONG_MAX) + 1)), long of 64 bits
MAX_FRAC_CHAR_LEN == 19

MIN_DATE_TIME == 19

MAX_DATE_TIME == 20 + MAX_FRAC_CHAR_LEN + 1

DATE_TIME_T_POS == 10

MIN_TIME_LEN == 8

MAX_TIME_LEN == 15

TOUCH_FLAG_ACCESS_TIME == "a"

TOUCH_FLAG_NO_CREATE == "c"

TOUCH_FLAG_MOD_TIME == "m"

TOUCH_FLAG_REF_FILE == "r"

TOUCH_FLAG_TIME == "t"

TOUCH_FLAG_DATE_TIME == "d"

(***************************************************************************)
(* The program context (struct touch) together with what the resolvers     *)
(* read and write outside it: the TZ variable of the environment, the      *)
(* standard error stream, the trace of library and system calls, and the   *)
(* struct tm local to the resolver that ran last.                          *)
(***************************************************************************)
\* memset(&touch, 0, sizeof(touch))
TouchZero ==
  [flags |-> {}, status_code |-> 0,
   time_am |-> <<Timespec(T_ZERO, 0), Timespec(T_ZERO, 0)>>]

World(t, tz, err, cl, tmv) ==
  [touch |-> t, TZ |-> tz, stderr |-> err, calls |-> cl, tm |-> tmv]

Call(w, name) == [w EXCEPT !.calls = Append(@, name)]

\* touch_warn that writes the message and leaves the status code alone.
touch_warn_message_only(w, msg) == [w EXCEPT !.stderr = Append(@, msg)]

\* touch_warn: the status code becomes EXIT_FAILURE and one message is
\* written to standard error.
touch_warn(w, msg) ==
  [w EXCEPT !.touch.status_code = EXIT_FAILURE, !.stderr = Append(@, msg)]

(***************************************************************************)
(* IEEE-754 binary64 arithmetic for strtod and the product with            *)
(* CONV_FRAC_NSEC.  A natural number is a sequence of limbs of LimbBits    *)
(* bits, least significant first; a double is [m, e], the value m * 2^e    *)
(* with m = 0 or m a natural number of exactly DBL_MANT_DIG bits.          *)
(***************************************************************************)
DBL_MANT_DIG == 53

LimbBits == 3 * 5

LimbBase == 2 ^ LimbBits

RECURSIVE IntBitLen(_)
IntBitLen(n) == IF n = 0 THEN 0 ELSE 1 + IntBitLen(n \div 2)

RECURSIVE BigTrim(_)
\* without its most significant zero limbs
BigTrim(b) ==
  IF Len(b) > 0 /\ b[Len(b)] = 0 THEN BigTrim(SubSeq(b, 1, Len(b) - 1)) ELSE b

\* Position of the most significant 1 bit (0 for the number zero).
BigBitLen(b) ==
  Let(BigTrim(b), LAMBDA t :
    IF Len(t) = 0 THEN 0 ELSE (Len(t) - 1) * LimbBits + IntBitLen(t[Len(t)]))

RECURSIVE BigMulAdd(_, _, _, _, _)
BigMulAdd(b, k, c, carry, acc) ==
  IF k > Len(b) /\ carry = 0
  THEN acc
  ELSE LET v    == (IF k <= Len(b) THEN b[k] * c ELSE 0) + carry
           acc1 == Append(acc, v % LimbBase)
       IN  IF Len(acc1) = k THEN BigMulAdd(b, k + 1, c, v \div LimbBase, acc1)
           ELSE <<>>

\* b * c + carry, for c and carry below LimbBase
BigMul(b, c, carry) == BigMulAdd(b, 1, c, carry, <<>>)

RECURSIVE BigDivFrom(_, _, _, _, _)
BigDivFrom(b, k, c, rem, acc) ==
  IF k = 0
  THEN [q |-> acc, rem |-> rem]
  ELSE LET r    == rem * LimbBase + b[k]
           acc1 == <<r \div c>> \o acc
       IN  IF Len(acc1) > 0 THEN BigDivFrom(b, k - 1, c, r % c, acc1)
           ELSE [q |-> <<>>, rem |-> 0]

\* quotient and remainder of b by c, for c below LimbBase
BigDiv(b, c) == BigDivFrom(b, Len(b), c, 0, <<>>)

Zeros(n) == [k \in 1..n |-> 0]

\* b * 2^n
BigShl(b, n) == Zeros(n \div LimbBits) \o BigMul(b, 2 ^ (n % LimbBits), 0)

\* floor(b / 2^n), and whether bits were shifted out
BigShr(b, n) ==
  Let(n \div LimbBits, LAMBDA limbs :
    Let(BigDiv(IF limbs < Len(b) THEN SubSeq(b, limbs + 1, Len(b)) ELSE <<>>,
               2 ^ (n % LimbBits)),
        LAMBDA d :
          [q |-> d.q,
           sticky |-> d.rem # 0
                      \/ \E k \in 1..(IF limbs < Len(b) THEN limbs ELSE Len(b)) :
                           b[k] # 0]))

RECURSIVE BigDivPow10(_, _, _)
\* floor(b / 10^n), and whether the division left a remainder
BigDivPow10(b, n, sticky) ==
  IF n = 0
  THEN [q |-> b, sticky |-> sticky]
  ELSE Let(BigDiv(b, 10), LAMBDA d :
         IF d.rem # 0 THEN BigDivPow10(d.q, n - 1, TRUE)
         ELSE BigDivPow10(d.q, n - 1, sticky))

RECURSIVE BigMulPow10(_, _)
BigMulPow10(b, n) ==
  IF n = 0 \/ Len(b) = 0 THEN b ELSE BigMulPow10(BigMul(b, 10, 0), n - 1)

RECURSIVE BigOfDigits(_, _, _)
\* the natural number written by the decimal digits ds[k..]
BigOfDigits(ds, k, acc) ==
  IF k > Len(ds) \/ Len(acc) < 0 THEN acc
  ELSE BigOfDigits(ds, k + 1, BigMul(acc, 10, DigitVal(ds[k])))

BigIsOdd(b) == Len(b) > 0 /\ b[1] % 2 = 1

RECURSIVE BigToInt(_, _)
BigToInt(b, k) == IF k > Len(b) THEN 0 ELSE b[k] + LimbBase * BigToInt(b, k + 1)

\* The DBL_MANT_DIG most significant bits of b, rounded to nearest and ties
\* to even on the drop > 0 bits below them; inexact says that b is itself a
\* truncation.
RoundMantissa(b, drop, inexact) ==
  Let(BigShr(b, drop - 1), LAMBDA g :
    Let(BigShr(g.q, 1).q, LAMBDA kept :
      IF BigIsOdd(g.q) /\ (inexact \/ g.sticky \/ BigIsOdd(kept))
      THEN BigTrim(BigMul(kept, 1, 1))
      ELSE BigTrim(kept)))

\* b * 2^e rounded to a double; b = 0 gives 0.0.
RoundToDouble(b, e, inexact) ==
  Let(BigBitLen(b), LAMBDA len :
    IF len = 0
    THEN [m |-> <<>>, e |-> 0]
    ELSE IF len <= DBL_MANT_DIG
    THEN [m |-> BigTrim(BigShl(b, DBL_MANT_DIG - len)), e |-> e + len - DBL_MANT_DIG]
    ELSE Let(RoundMantissa(b, len - DBL_MANT_DIG, inexact), LAMBDA m1 :
           IF BigBitLen(m1) > DBL_MANT_DIG
           THEN [m |-> BigTrim(BigShr(m1, 1).q), e |-> e + len - DBL_MANT_DIG + 1]
           ELSE [m |-> m1, e |-> e + len - DBL_MANT_DIG]))

\* Binary digits kept below the point while dividing by the power of ten.
StrtodScale == 8 * LimbBits

\* strtod(".d1...dn"): the double nearest to 0.d1...dn
strtod_value(ds) ==
  Let(BigDivPow10(BigShl(BigOfDigits(ds, 1, <<>>), StrtodScale), Len(ds), FALSE),
      LAMBDA q : RoundToDouble(q.q, -StrtodScale, q.sticky))

\* (long)(frac * CONV_FRAC_NSEC), CONV_FRAC_NSEC = 1000000000 = 10^9: the
\* product is rounded to a double and then truncated toward zero.
FracToNsec(frac) ==
  Let(RoundToDouble(BigMulPow10(frac.m, 9), frac.e, FALSE), LAMBDA p :
    IF p.m = <<>> THEN 0
    ELSE IF p.e >= 0 THEN BigToInt(BigShl(p.m, p.e), 1)
    ELSE BigToInt(BigTrim(BigShr(p.m, -p.e).q), 1))

(***************************************************************************)
(* touch_parse_frac                                                        *)
(***************************************************************************)
\* strtod that takes the bare "." for the number 0 and consumes it.
strtod_consumes_point(frac_str, einval) ==
  IF Len(frac_str) <= 1
  THEN [val |-> [m |-> <<>>, e |-> 0], ep |-> 1, errno |-> 0]
  ELSE [val |-> strtod_value(Tail(frac_str)), ep |-> Len(frac_str), errno |-> 0]

\* strtod(frac_str, &ep) for frac_str = "." followed by digits only.  With
\* no digit there is no conversion: 0 is returned, ep = frac_str, and the
\* library may or may not set errno to EINVAL (einval chooses).
strtod(frac_str, einval) ==
  IF Len(frac_str) <= 1
  THEN [val |-> [m |-> <<>>, e |-> 0], ep |-> 0, errno |-> IF einval THEN 1 ELSE 0]
  ELSE [val |-> strtod_value(Tail(frac_str)), ep |-> Len(frac_str), errno |-> 0]

\* The copy loop without its bound: every digit at the cursor is taken.
RECURSIVE FracStrEnd_unbounded(_, _, _)
FracStrEnd_unbounded(s, tp, i) ==
  IF isdigit(CharAt(s, tp + i - 1))
  THEN FracStrEnd_unbounded(s, tp, i + 1)
  ELSE i

\* for(i = 1; isdigit((*time_parse)[i - 1]) && i < MAX_FRAC_CHAR_LEN; i++)
RECURSIVE FracStrEnd(_, _, _)
FracStrEnd(s, tp, i) ==
  IF isdigit(CharAt(s, tp + i - 1)) /\ i < MAX_FRAC_CHAR_LEN
  THEN FracStrEnd(s, tp, i + 1)
  ELSE i

\* The result is the world after the call and the caller's cursor
\* time_parse.  o chooses what the library calls return: o.malloc_ok,
\* o.strtod_einval.
touch_parse_frac(w, s, time_parse, o) ==
  IF CharAt(s, time_parse) \notin {".", ","}
  THEN [w |-> w, time_parse |-> time_parse]
  ELSE IF ~o.malloc_ok
  THEN [w |-> touch_warn(Call(w, <<"malloc">>), "malloc: frac_str"),
        time_parse |-> time_parse]
  ELSE
    Let(FracStrEnd(s, time_parse + 1, 1), LAMBDA i :
      Let(strtod(<<".">> \o [k \in 1..(i - 1) |-> CharAt(s, time_parse + k)],
                 o.strtod_einval),
          LAMBDA r :
            IF r.errno # 0
            THEN [w |-> touch_warn(Call(Call(w, <<"malloc">>), <<"strtod">>),
                                   "failed to parse frac"),
                  time_parse |-> time_parse + 1]
            ELSE Let(FracToNsec(r.val), LAMBDA tv_nsec :
                   [w |-> [Call(Call(w, <<"malloc">>), <<"strtod">>)
                             EXCEPT !.touch.time_am[1].tv_nsec = tv_nsec,
                                    !.touch.time_am[2].tv_nsec = tv_nsec],
                    time_parse |-> time_parse + 1 + (r.ep - 1)])))

(***************************************************************************)
(* touch_parse_date_time                                                   *)
(***************************************************************************)
\* strcpy(fmt, "%Y-%m-%d %T")
FmtDateTime == <<"%", "Y", "-", "%", "m", "-", "%", "d", " ", "%", "T">>

\* touch_set_tv_sec that takes every result of mktime for a time.
touch_set_tv_sec_any_result(w, tmv) ==
  Let(mktime(tmv, w.TZ), LAMBDA tv_sec :
    [Call(w, <<"mktime">>) EXCEPT !.touch.time_am[1].tv_sec = tv_sec,
                                  !.touch.time_am[2].tv_sec = tv_sec])

\* touch_set_tv_sec that stores tv_sec only when mktime succeeded.
touch_set_tv_sec_on_success(w, tmv) ==
  Let(mktime(tmv, w.TZ), LAMBDA tv_sec :
    IF tv_sec = T_MINUS1
    THEN touch_warn(Call(w, <<"mktime">>), "mktime")
    ELSE [Call(w, <<"mktime">>) EXCEPT !.touch.time_am[1].tv_sec = tv_sec,
                                        !.touch.time_am[2].tv_sec = tv_sec])

\* tv_sec = mktime(&tm); a result of (time_t)-1 is warned about, and tv_sec
\* is stored in both elements either way.
touch_set_tv_sec(w, tmv) ==
  Let(mktime(tmv, w.TZ), LAMBDA tv_sec :
    [(IF tv_sec = T_MINUS1
      THEN touch_warn(Call(w, <<"mktime">>), "mktime")
      ELSE Call(w, <<"mktime">>))
       EXCEPT !.touch.time_am[1].tv_sec = tv_sec,
              !.touch.time_am[2].tv_sec = tv_sec])

\* touch_parse_zone that reads the 'Z' and leaves the TZ context alone.
touch_parse_zone_keeps_tz(f, s, o) ==
  IF CharAt(s, f.time_parse) # "Z"
  THEN f
  ELSE [w |-> IF o.setenv_ok
              THEN Call(f.w, <<"setenv">>)
              ELSE touch_warn(Call(f.w, <<"setenv">>), "failed to set TZ"),
        time_parse |-> f.time_parse + 1]

\* if(*time_parse == 'Z') setenv("TZ", "UTC", 1); o.setenv_ok chooses the
\* result of setenv.  The result is the world and the cursor.
touch_parse_zone(f, s, o) ==
  IF CharAt(s, f.time_parse) # "Z"
  THEN f
  ELSE [w |-> IF o.setenv_ok
              THEN [Call(f.w, <<"setenv">>) EXCEPT !.TZ = "UTC"]
              ELSE touch_warn(Call(f.w, <<"setenv">>), "failed to set TZ"),
        time_parse |-> f.time_parse + 1]

\* The condition under which "invalid date_time" is reported.
date_time_invalid(date_time_str) ==
  \/ strlen(date_time_str) < MIN_DATE_TIME
  \/ strlen(date_time_str) >= MAX_DATE_TIME
  \/ (CharAt(date_time_str, DATE_TIME_T_POS) # "T"
      /\ CharAt(date_time_str, DATE_TIME_T_POS) # " ")

touch_parse_date_time(w, date_time_str, o) ==
  IF date_time_invalid(date_time_str)
  THEN touch_warn(w, "invalid date_time")
  ELSE
    Let(strptime(date_time_str,
                 [FmtDateTime EXCEPT ![8 + 1] = CharAt(date_time_str, DATE_TIME_T_POS)],
                 [TmZero EXCEPT !.tm_isdst = -1]),
        LAMBDA p :
          IF ~p.ok
          THEN touch_warn([Call(w, <<"strptime">>) EXCEPT !.tm = p.tm],
                          "failed to parse date_time")
          ELSE
            Let(touch_parse_zone(
                  touch_parse_frac([Call(w, <<"strptime">>) EXCEPT !.tm = p.tm],
                                   date_time_str, p.rp, o),
                  date_time_str, o),
                LAMBDA z :
                  IF z.w.touch.status_code # 0
                     \/ CharAt(date_time_str, z.time_parse) # NUL
                  THEN touch_warn(z.w, "failed to parse date_time")
                  ELSE touch_set_tv_sec(z.w, p.tm)))

(***************************************************************************)
(* touch_parse_time                                                        *)
(***************************************************************************)
\* The strptime format: fmt_append = stpcpy(fmt_append, ...) piece by piece.
TimeFmt(slen_minus_sec, has_dot) ==
  (IF slen_minus_sec = 12 THEN <<"%", "C">> ELSE <<>>)
  \o (IF slen_minus_sec >= 10 THEN <<"%", "y">> ELSE <<>>)
  \o <<"%", "m", "%", "d", "%", "H", "%", "M">>
  \o (IF has_dot THEN <<".", "%", "S">> ELSE <<>>)

\* touch_parse_time that starts from the year of the clock (2025) and not
\* from a zeroed struct tm.
touch_parse_time_current_year(w, time_str) ==
  IF strlen(time_str) < MIN_TIME_LEN \/ strlen(time_str) > MAX_TIME_LEN
  THEN touch_warn(w, "invalid time string")
  ELSE
    Let(strptime(time_str,
                 TimeFmt(IF strchr(time_str, ".") THEN strlen(time_str) - 3
                         ELSE strlen(time_str),
                         strchr(time_str, ".")),
                 [TmZero EXCEPT !.tm_year = 2025 - 1900]),
        LAMBDA p :
          IF ~p.ok \/ CharAt(time_str, p.rp) # NUL
          THEN touch_warn([Call(w, <<"strptime">>) EXCEPT !.tm = p.tm],
                          "invalid time string")
          ELSE touch_set_tv_sec([Call(w, <<"strptime">>) EXCEPT !.tm = p.tm], p.tm))

touch_parse_time(w, time_str) ==
  IF strlen(time_str) < MIN_TIME_LEN \/ strlen(time_str) > MAX_TIME_LEN
  THEN touch_warn(w, "invalid time string")
  ELSE
    Let(strptime(time_str,
                 TimeFmt(IF strchr(time_str, ".") THEN strlen(time_str) - 3
                         ELSE strlen(time_str),
                         strchr(time_str, ".")),
                 TmZero),
        LAMBDA p :
          IF ~p.ok \/ CharAt(time_str, p.rp) # NUL
          THEN touch_warn([Call(w, <<"strptime">>) EXCEPT !.tm = p.tm],
                          "invalid time string")
          ELSE touch_set_tv_sec([Call(w, <<"strptime">>) EXCEPT !.tm = p.tm], p.tm))

(***************************************************************************)
(* touch_get_time_ref_file                                                 *)
(***************************************************************************)
\* stat(path, &sb) fails when the file does not exist.
touch_get_time_ref_file(w, fsys, path) ==
  LET w1 == Call(w, <<"stat", path>>)
  IN  IF ~fsys[path].exists
      THEN touch_warn(w1, "stat reference file")
      ELSE [w1 EXCEPT !.touch.time_am = <<fsys[path].st_atim, fsys[path].st_mtim>>]

(***************************************************************************)
(* The file system and touch_path                                          *)
(***************************************************************************)
\* The clock: what UTIME_NOW and a file creation store.
Now == Timespec(TimeT(20393, 4 * 3600), 777)

NoFile == [exists |-> FALSE, st_atim |-> Timespec(T_ZERO, 0), st_mtim |-> Timespec(T_ZERO, 0)]

File(atim, mtim) == [exists |-> TRUE, st_atim |-> atim, st_mtim |-> mtim]

NsecValid(n) == (n >= 0 /\ n <= 999999999) \/ n = UTIME_NOW \/ n = UTIME_OMIT

\* futimens / utimensat reject a tv_nsec that is neither in range nor a
\* sentinel (EINVAL).
TimesValid(times) == NsecValid(times[1].tv_nsec) /\ NsecValid(times[2].tv_nsec)

SetTime(old, ts) ==
  IF ts.tv_nsec = UTIME_NOW THEN Now
  ELSE IF ts.tv_nsec = UTIME_OMIT THEN old
  ELSE ts

\* What futimens(fd, times) / utimensat(AT_FDCWD, path, times, 0) store.
utimens(f, times) ==
  [f EXCEPT !.st_atim = SetTime(f.st_atim, times[1]),
            !.st_mtim = SetTime(f.st_mtim, times[2])]

\* touch_path that returns as soon as futimens or utimensat fails, without
\* closing the descriptor.
touch_path_returns_on_failure(w, fsys, path, fault) ==
  LET time_am == w.touch.time_am
      bad     == ~TimesValid(time_am)
  IN  IF fault = "open"
      THEN [w |-> touch_warn(Call(w, <<"open", path, "EACCES">>), "open"), fs |-> fsys]
      ELSE IF ~fsys[path].exists
      THEN LET w1 == Call(w, <<"open", path, "ENOENT">>)
           IN  IF TOUCH_FLAG_NO_CREATE \in w.touch.flags
               THEN [w |-> w1, fs |-> fsys]
               ELSE IF fault = "creat"
               THEN [w |-> touch_warn(Call(w1, <<"creat", path, "EACCES">>), "creat"),
                     fs |-> fsys]
               ELSE LET created == [fsys EXCEPT ![path] = File(Now, Now)]
                        w2 == Call(w1, <<"creat", path, "fd">>)
                    IN  IF fault = "futimens" \/ bad
                        THEN [w |-> touch_warn(Call(w2, <<"futimens", path, "EINVAL">>),
                                               "futimens"),
                              fs |-> created]
                        ELSE [w |-> Call(Call(w2, <<"futimens", path, "0">>),
                                         <<"close", path, "0">>),
                              fs |-> [created EXCEPT ![path] = utimens(@, time_am)]]
      ELSE LET w1 == Call(w, <<"open", path, "fd">>)
           IN  IF fault = "utimensat" \/ bad
               THEN [w |-> touch_warn(Call(w1, <<"utimensat", path, "EINVAL">>),
                                      "utimensat on"),
                     fs |-> fsys]
               ELSE [w |-> Call(Call(w1, <<"utimensat", path, "0">>),
                                <<"close", path, "0">>),
                     fs |-> [fsys EXCEPT ![path] = utimens(@, time_am)]]

\* touch_path that does not look at the no-create flag: an absent file is
\* created whatever the flags are.
touch_path_creates_always(w, fsys, path, fault) ==
  LET time_am == w.touch.time_am
      bad     == ~TimesValid(time_am)
  IN  IF fault = "open"
      THEN [w |-> touch_warn(Call(w, <<"open", path, "EACCES">>), "open"), fs |-> fsys]
      ELSE IF ~fsys[path].exists
      THEN LET w1 == Call(w, <<"open", path, "ENOENT">>)
           IN  IF fault = "creat"
               THEN [w |-> touch_warn(Call(w1, <<"creat", path, "EACCES">>), "creat"),
                     fs |-> fsys]
               ELSE LET created == [fsys EXCEPT ![path] = File(Now, Now)]
                        w2 == Call(w1, <<"creat", path, "fd">>)
                        w3 == IF fault = "futimens" \/ bad
                              THEN touch_warn(Call(w2, <<"futimens", path, "EINVAL">>),
                                              "futimens")
                              ELSE Call(w2, <<"futimens", path, "0">>)
                        fs3 == IF fault = "futimens" \/ bad
                               THEN created
                               ELSE [created EXCEPT ![path] = utimens(@, time_am)]
                    IN  [w |-> Call(w3, <<"close", path, "0">>), fs |-> fs3]
      ELSE LET w1 == Call(w, <<"open", path, "fd">>)
               w2 == IF fault = "utimensat" \/ bad
                     THEN touch_warn(Call(w1, <<"utimensat", path, "EINVAL">>),
                                     "utimensat on")
                     ELSE Call(w1, <<"utimensat", path, "0">>)
               fs2 == IF fault = "utimensat" \/ bad
                      THEN fsys
                      ELSE [fsys EXCEPT ![path] = utimens(@, time_am)]
           IN  [w |-> Call(w2, <<"close", path, "0">>), fs |-> fs2]

\* touch_path: the world and the file system after the call.  fault names
\* the system call that the environment makes fail in this call ("none": no
\* call fails but for the reasons the model itself holds: an absent file,
\* invalid times).  The trace records each call with its outcome; close is
\* called exactly when fd >= 0.
touch_path(w, fsys, path, fault) ==
  LET time_am == w.touch.time_am
      bad     == ~TimesValid(time_am)
  IN  IF fault = "open"
      THEN [w |-> touch_warn(Call(w, <<"open", path, "EACCES">>), "open"), fs |-> fsys]
      ELSE IF ~fsys[path].exists
      THEN LET w1 == Call(w, <<"open", path, "ENOENT">>)
           IN  IF TOUCH_FLAG_NO_CREATE \in w.touch.flags
               THEN [w |-> w1, fs |-> fsys]
               ELSE IF fault = "creat"
               THEN [w |-> touch_warn(Call(w1, <<"creat", path, "EACCES">>), "creat"),
                     fs |-> fsys]
               ELSE LET created == [fsys EXCEPT ![path] = File(Now, Now)]
                        w2 == Call(w1, <<"creat", path, "fd">>)
                        w3 == IF fault = "futimens" \/ bad
                              THEN touch_warn(Call(w2, <<"futimens", path, "EINVAL">>),
                                              "futimens")
                              ELSE Call(w2, <<"futimens", path, "0">>)
                        fs3 == IF fault = "futimens" \/ bad
                               THEN created
                               ELSE [created EXCEPT ![path] = utimens(@, time_am)]
                    IN  [w |-> Call(w3, <<"close", path, "0">>), fs |-> fs3]
      ELSE LET w1 == Call(w, <<"open", path, "fd">>)
               w2 == IF fault = "utimensat" \/ bad
                     THEN touch_warn(Call(w1, <<"utimensat", path, "EINVAL">>),
                                     "utimensat on")
                     ELSE Call(w1, <<"utimensat", path, "0">>)
               fs2 == IF fault = "utimensat" \/ bad
                      THEN fsys
                      ELSE [fsys EXCEPT ![path] = utimens(@, time_am)]
           IN  [w |-> Call(w2, <<"close", path, "0">>), fs |-> fs2]

(***************************************************************************)
(* touch_ensure_args_mutually_exclusive and the timestamp policy           *)
(***************************************************************************)
\* The three comparisons joined so that only all three sources together
\* are refused.
touch_ensure_args_all_three(t) ==
  LET flags_exclusive ==
        t.flags \cap {TOUCH_FLAG_REF_FILE, TOUCH_FLAG_TIME, TOUCH_FLAG_DATE_TIME}
  IN  flags_exclusive # {TOUCH_FLAG_REF_FILE, TOUCH_FLAG_TIME, TOUCH_FLAG_DATE_TIME}

touch_ensure_args_mutually_exclusive(t) ==
  LET flags_exclusive ==
        t.flags \cap {TOUCH_FLAG_REF_FILE, TOUCH_FLAG_TIME, TOUCH_FLAG_DATE_TIME}
  IN  ~(/\ flags_exclusive # {}
        /\ flags_exclusive # {TOUCH_FLAG_REF_FILE}
        /\ flags_exclusive # {TOUCH_FLAG_TIME}
        /\ flags_exclusive # {TOUCH_FLAG_DATE_TIME})

\* "Use current time if the user did not specify a time."
touch_default_now(time_am) ==
  IF time_am[1].tv_sec = T_ZERO
  THEN [time_am EXCEPT ![1].tv_nsec = UTIME_NOW, ![2].tv_nsec = UTIME_NOW]
  ELSE time_am

\* touch_policy with the two elements of the pair taken for each other.
touch_policy_swapped(flags, time_am) ==
  IF TOUCH_FLAG_ACCESS_TIME \notin flags /\ TOUCH_FLAG_MOD_TIME \notin flags
  THEN time_am
  ELSE IF TOUCH_FLAG_ACCESS_TIME \notin flags
  THEN [time_am EXCEPT ![2].tv_nsec = UTIME_OMIT]
  ELSE IF TOUCH_FLAG_MOD_TIME \notin flags
  THEN [time_am EXCEPT ![1].tv_nsec = UTIME_OMIT]
  ELSE time_am

\* The -a / -m restriction of the pair.
touch_policy(flags, time_am) ==
  IF TOUCH_FLAG_ACCESS_TIME \notin flags /\ TOUCH_FLAG_MOD_TIME \notin flags
  THEN time_am
  ELSE IF TOUCH_FLAG_ACCESS_TIME \notin flags
  THEN [time_am EXCEPT ![1].tv_nsec = UTIME_OMIT]
  ELSE IF TOUCH_FLAG_MOD_TIME \notin flags
  THEN [time_am EXCEPT ![2].tv_nsec = UTIME_OMIT]
  ELSE time_am

(***************************************************************************)
(* Inputs                                                                  *)
(***************************************************************************)
D2(n) == <<DigitChars[(n \div 10) + 1], DigitChars[(n % 10) + 1]>>

D4(n) == D2(n \div 100) \o D2(n % 100)

\* YYYY-MM-DD<sep>hh:mm:ss
IsoStr(y, mo, d, sep, h, mi, sec) ==
  D4(y) \o <<"-">> \o D2(mo) \o <<"-">> \o D2(d) \o <<sep>>
  \o D2(h) \o <<":">> \o D2(mi) \o <<":">> \o D2(sec)

\* The files of the model: two reference files (the second has an access
\* time of 0 seconds), a path that does not exist, and two target paths,
\* one absent and one present.
PATH_REF_FILE == "/etc/hosts"

PATH_REF_EPOCH == "/srv/epoch"

PATH_NOEXIST == "/noexist.txt"

PATH_TMP_FILE == "/tmp/test-touch.txt"

PATH_TMP_FILE_2 == "/tmp/test-touch-2.txt"

FS0 ==
  (PATH_REF_FILE :> File(Timespec(TimeT(19000, 120), 123456789),
                         Timespec(TimeT(18000, 60), 987654321)))
  @@ (PATH_REF_EPOCH :> File(Timespec(T_ZERO, 5), Timespec(TimeT(18000, 61), 6)))
  @@ (PATH_NOEXIST :> NoFile)
  @@ (PATH_TMP_FILE :> NoFile)
  @@ (PATH_TMP_FILE_2 :> File(Timespec(TimeT(17000, 1), 1), Timespec(TimeT(17000, 2), 2)))

RefPaths == {PATH_REF_FILE, PATH_REF_EPOCH, PATH_NOEXIST}

TargetPaths == {PATH_TMP_FILE, PATH_TMP_FILE_2}

\* -t arguments of the whole-program specification: a CCYY form, a string
\* one digit short, and the local times of epoch seconds 0 and -1.
MainTimeSpecs ==
  { D4(2007) \o D2(11) \o D2(12) \o D2(10) \o D2(15),
    D2(7) \o D2(11) \o D2(12) \o D2(10) \o <<"1">>,
    D2(69) \o D2(12) \o D2(31) \o D2(19) \o D2(0),
    D2(69) \o D2(12) \o D2(31) \o D2(18) \o D2(59) \o <<".">> \o D2(59) }

\* -d arguments of the whole-program specification
MainDateSpecs ==
  { IsoStr(2007, 11, 12, " ", 10, 15, 30) \o <<",", "0", "0", "2", "Z">>,
    IsoStr(1970, 1, 1, "T", 0, 0, 0) \o <<"Z">>,
    IsoStr(1969, 12, 31, "T", 23, 59, 59) \o <<"Z">>,
    IsoStr(2007, 11, 12, "T", 10, 15, 30) \o <<"Z", "1">>,
    IsoStr(2007, 11, 12, "T", 10, 15, 30) \o <<",", "a", "0", "0", "2">>,
    SubSeq(IsoStr(2007, 11, 12, "T", 10, 15, 30), 1, 18) }

Oracles == [malloc_ok : BOOLEAN, strtod_einval : BOOLEAN, setenv_ok : BOOLEAN]

Faults == {"none", "open", "creat", "futimens", "utimensat"}

RECURSIVE SeqsUpTo(_, _)
\* the sequences over S of length at most n
SeqsUpTo(S, n) ==
  IF n = 0 THEN {<<>>}
  ELSE LET shorter == SeqsUpTo(S, n - 1)
       IN  shorter \cup {Append(q, x) : q \in shorter, x \in S}

\* s without its k-th character, with c before its k-th character, and
\* with c instead of its k-th character
Delete(s, k) == SubSeq(s, 1, k - 1) \o SubSeq(s, k + 1, Len(s))

Insert(s, k, c) == SubSeq(s, 1, k - 1) \o <<c>> \o SubSeq(s, k, Len(s))

Replace(s, k, c) == [s EXCEPT ![k] = c]

\* The strings one edit away from s.
Edits(s, cs) ==
  {Delete(s, k) : k \in 1..Len(s)}
  \cup {Insert(s, k, c) : k \in 1..(Len(s) + 1), c \in cs}
  \cup {Replace(s, k, c) : k \in 1..Len(s), c \in cs}

\* -t arguments of the parser specification: every layout over a few values
\* of each field, the values next to each limit included ...
TimeYears ==
  {<<>>} \cup {D2(y) : y \in {0, 7, 68, 69, 99}}
         \cup {D4(y) : y \in {1968, 1969, 2007, 2068, 2069}}

TimeMonthDays ==
  {D2(m) \o D2(d) : m \in {1, 12}, d \in {1, 31}}
  \cup {D2(2) \o D2(30), D2(11) \o D2(12), D2(13) \o D2(1), D2(0) \o D2(10),
        D2(6) \o D2(0), D2(6) \o D2(32)}

TimeHourMins ==
  {D2(0) \o D2(0), D2(10) \o D2(15), D2(23) \o D2(59), D2(24) \o D2(0),
   D2(12) \o D2(60)}

TimeSecs == {<<>>} \cup {<<".">> \o D2(sec) : sec \in {0, 30, 59, 60, 61, 62}}

\* ... and the strings one edit away from one string of each layout.
TimeSeeds ==
  {y \o D2(11) \o D2(12) \o D2(10) \o D2(15) \o sec :
     y \in {<<>>, D2(7), D4(2007)}, sec \in {<<>>, <<".">> \o D2(30)}}

NumericSpecs ==
  {y \o md \o hm \o sec :
     y \in TimeYears, md \in TimeMonthDays, hm \in TimeHourMins, sec \in TimeSecs}
  \cup UNION {Edits(s, {"0", ".", "a", " "}) : s \in TimeSeeds}

RECURSIVE Digits(_)
\* n digits: 1234567890123...
Digits(n) == IF n = 0 THEN <<>> ELSE Append(Digits(n - 1), DigitChars[(n % 10) + 1])

\* The longest fraction the -d arguments of the parser specification carry.
MaxFracLen == MAX_FRAC_CHAR_LEN + 2

\* What may follow the seconds of a -d argument.
DateTails ==
  {<<>>, <<"Z">>, <<"Z", "1">>, <<"z">>}
  \cup {<<p>> \o Digits(n) \o z :
          p \in {",", "."}, n \in 0..MaxFracLen, z \in {<<>>, <<"Z">>}}
  \cup {<<",">> \o f \o z :
          f \in {<<"0", "1", "5", "7">>, <<"9", "9", "9", "9", "9", "9", "9", "9", "9">>,
                 <<"a", "0", "0", "2">>, <<"5", " ">>},
          z \in {<<>>, <<"Z">>}}
  \cup {<<",">> \o [k \in 1..n |-> "9"] \o z :
          n \in {MAX_FRAC_CHAR_LEN - 2, MAX_FRAC_CHAR_LEN - 1}, z \in {<<>>, <<"Z">>}}

DateSeps == {"T", " ", "t", "-"}

\* -d arguments of the parser specification: a few calendar times with every
\* tail and separator, and the strings one edit away from two of them
DateHeads ==
  {IsoStr(2007, 11, 12, sep, 10, 15, 30) : sep \in DateSeps}
  \cup {IsoStr(1970, 1, 1, sep, 0, 0, 0) : sep \in {"T", " "}}
  \cup {IsoStr(2019, 2, 30, sep, 23, 59, 60) : sep \in {"T", " "}}
  \cup {IsoStr(2007, 13, 12, "T", 10, 15, 30), IsoStr(2007, 11, 12, "T", 24, 15, 30)}

DateSeeds ==
  {IsoStr(2007, 11, 12, "T", 10, 15, 30),
   IsoStr(2007, 11, 12, " ", 10, 15, 30) \o <<",", "5", "Z">>}

IsoSpecs ==
  {h \o tl : h \in DateHeads, tl \in DateTails}
  \cup UNION {Edits(s, {"0", "T", " ", "Z"}) : s \in DateSeeds}

\* The options that may follow the first one in the parser specifications.
NextTimeSpecs ==
  {D4(1969) \o D2(12) \o D2(31) \o D2(19) \o D2(0), D2(12) \o D2(31) \o D2(23) \o D2(5)}

NextDateSpecs ==
  {IsoStr(2019, 1, 1, " ", 9, 5, 0), IsoStr(2007, 11, 12, "T", 10, 15, 30) \o <<"Z">>}

OraclesOk == [malloc_ok |-> TRUE, strtod_einval |-> FALSE, setenv_ok |-> TRUE]

MaxOpts == 2

MaxPaths == 2

(***************************************************************************)
(* State                                                                   *)
(***************************************************************************)
VARIABLES
  pc,       \* where touch_main is: "getopt", "loop" or "done"
  touch,    \* struct touch: flags, status_code, time_am
  TZ,       \* the TZ context of the process: "local" or "UTC"
  stderr,   \* the messages written to standard error
  calls,    \* the trace of library and system calls
  tm,       \* the struct tm of the resolver that ran last
  last,     \* the option parsed last, its argument, and the world before it
  nopts,    \* options parsed so far
  argv,     \* the file operands (argv after argv += optind)
  i,        \* the index of the path loop
  fs,       \* the file system
  resolved  \* time_am as the options left it, when getopt returned -1

vars == <<pc, touch, TZ, stderr, calls, tm, last, nopts, argv, i, fs, resolved>>

W == World(touch, TZ, stderr, calls, tm)

Commit(w) ==
  /\ touch' = w.touch
  /\ TZ' = w.TZ
  /\ stderr' = w.stderr
  /\ calls' = w.calls
  /\ tm' = w.tm

Init ==
  /\ pc = "getopt"
  /\ touch = TouchZero
  /\ TZ = "local"
  /\ stderr = <<>>
  /\ calls = <<>>
  /\ tm = TmZero
  /\ last = [opt |-> "", optarg |-> <<>>,
             before |-> World(TouchZero, "local", <<>>, <<>>, TmZero)]
  /\ nopts = 0
  /\ argv = <<>>
  /\ i = 0
  /\ fs = FS0
  /\ resolved = TouchZero.time_am

(***************************************************************************)
(* touch_main: one action per iteration of the getopt loop                 *)
(***************************************************************************)
\* One option c with argument optarg was returned by getopt and handled
\* with result w (the flag of the option not yet set).
Option(c, optarg, w, flag) ==
  /\ pc = "getopt"
  /\ nopts < MaxOpts
  /\ Commit([w EXCEPT !.touch.flags = @ \cup flag])
  /\ last' = [opt |-> c, optarg |-> optarg, before |-> W]
  /\ nopts' = nopts + 1
  /\ UNCHANGED <<pc, argv, i, fs, resolved>>

OptA == Option("a", <<>>, W, {TOUCH_FLAG_ACCESS_TIME})

OptC == Option("c", <<>>, W, {TOUCH_FLAG_NO_CREATE})

OptM == Option("m", <<>>, W, {TOUCH_FLAG_MOD_TIME})

OptD(date_time_str, o) ==
  Option("d", date_time_str, touch_parse_date_time(W, date_time_str, o),
         {TOUCH_FLAG_DATE_TIME})

OptR(path) ==
  Option("r", path, touch_get_time_ref_file(W, fs, path), {TOUCH_FLAG_REF_FILE})

OptT(time_str) ==
  Option("t", time_str, touch_parse_time(W, time_str), {TOUCH_FLAG_TIME})

\* default: an option getopt does not know, or one without its argument;
\* getopt itself writes the message.
OptUnknown ==
  Option("?", <<>>,
         [W EXCEPT !.touch.status_code = EXIT_FAILURE,
                   !.stderr = Append(@, "getopt")],
         {})

\* EndOpts without the test of touch.status_code before the path loop.
EndOpts_ignores_status(paths) ==
  /\ pc = "getopt"
  /\ argv' = paths
  /\ i' = 0
  /\ UNCHANGED <<TZ, calls, tm, last, nopts, fs>>
  /\ IF Len(paths) < 1
     THEN /\ touch' = touch_warn(W, "file... argument required").touch
          /\ stderr' = touch_warn(W, "file... argument required").stderr
          /\ pc' = "done"
          /\ UNCHANGED resolved
     ELSE IF ~touch_ensure_args_mutually_exclusive(touch)
     THEN /\ touch' = touch_warn(W, "-r, -t, and -d mutually exclusive").touch
          /\ stderr' = touch_warn(W, "-r, -t, and -d mutually exclusive").stderr
          /\ pc' = "done"
          /\ UNCHANGED resolved
     ELSE /\ resolved' = touch.time_am
          /\ touch' = [touch EXCEPT !.time_am =
                         touch_policy(touch.flags, touch_default_now(touch.time_am))]
          /\ pc' = "loop"
          /\ UNCHANGED stderr

\* getopt returned -1 with the operands paths left; the checks and the
\* policy that precede the path loop.
EndOpts(paths) ==
  /\ pc = "getopt"
  /\ argv' = paths
  /\ i' = 0
  /\ UNCHANGED <<TZ, calls, tm, last, nopts, fs>>
  /\ IF Len(paths) < 1
     THEN /\ touch' = touch_warn(W, "file... argument required").touch
          /\ stderr' = touch_warn(W, "file... argument required").stderr
          /\ pc' = "done"
          /\ UNCHANGED resolved
     ELSE IF ~touch_ensure_args_mutually_exclusive(touch)
     THEN /\ touch' = touch_warn(W, "-r, -t, and -d mutually exclusive").touch
          /\ stderr' = touch_warn(W, "-r, -t, and -d mutually exclusive").stderr
          /\ pc' = "done"
          /\ UNCHANGED resolved
     ELSE IF touch.status_code = 0
     THEN /\ resolved' = touch.time_am
          /\ touch' = [touch EXCEPT !.time_am =
                         touch_policy(touch.flags, touch_default_now(touch.time_am))]
          /\ pc' = "loop"
          /\ UNCHANGED stderr
     ELSE /\ pc' = "done"
          /\ UNCHANGED <<touch, stderr, resolved>>

\* The path loop left at the first path that fails.
TouchPath_stops_on_failure(fault) ==
  /\ pc = "loop"
  /\ i < Len(argv)
  /\ LET r == touch_path(W, fs, argv[i + 1], fault)
     IN  /\ Commit(r.w)
         /\ fs' = r.fs
         /\ pc' = IF r.w.touch.status_code # 0 THEN "done" ELSE pc
  /\ i' = i + 1
  /\ UNCHANGED <<last, nopts, argv, resolved>>

\* A path loop whose touch_path marks the access entry of the pair as
\* leave-unchanged once a path is done.
TouchPath_consumes_pair(fault) ==
  /\ pc = "loop"
  /\ i < Len(argv)
  /\ LET r == touch_path(W, fs, argv[i + 1], fault)
     IN  /\ Commit([r.w EXCEPT !.touch.time_am[1].tv_nsec = UTIME_OMIT])
         /\ fs' = r.fs
  /\ i' = i + 1
  /\ UNCHANGED <<pc, last, nopts, argv, resolved>>

\* touch_path(&touch, argv[i]) and i++
TouchPath(fault) ==
  /\ pc = "loop"
  /\ i < Len(argv)
  /\ LET r == touch_path(W, fs, argv[i + 1], fault)
     IN  Commit(r.w) /\ fs' = r.fs
  /\ i' = i + 1
  /\ UNCHANGED <<pc, last, nopts, argv, resolved>>

\* return touch.status_code
Return ==
  /\ pc = "loop"
  /\ i >= Len(argv)
  /\ pc' = "done"
  /\ UNCHANGED <<touch, TZ, stderr, calls, tm, last, nopts, argv, i, fs, resolved>>

Next ==
  \/ OptA
  \/ OptC
  \/ OptM
  \/ \E s \in MainDateSpecs, o \in Oracles : OptD(s, o)
  \/ \E p \in RefPaths : OptR(p)
  \/ \E s \in MainTimeSpecs : OptT(s)
  \/ OptUnknown
  \/ \E paths \in SeqsUpTo(TargetPaths, MaxPaths) : EndOpts(paths)
  \/ \E f \in Faults : TouchPath(f)
  \/ Return

Spec == Init /\ [][Next]_vars

\* The program runs on until it returns.
FairSpec == Spec /\ WF_vars(Next)

(***************************************************************************)
(* The parsers alone: touch_main with -t options only, and with -d options *)
(* only, the first one over all the arguments of the parser specification. *)
(***************************************************************************)
FirstOptT == \E s \in NumericSpecs : nopts = 0 /\ OptT(s)

LaterOptT == \E s \in NextTimeSpecs : nopts > 0 /\ OptT(s)

NextTime == FirstOptT \/ LaterOptT

SpecTime == Init /\ [][NextTime]_vars

FirstOptD == \E s \in IsoSpecs, o \in Oracles : nopts = 0 /\ OptD(s, o)

LaterOptD == \E s \in NextDateSpecs, o \in Oracles : nopts > 0 /\ OptD(s, o)

NextDate == FirstOptD \/ LaterOptD

SpecDate == Init /\ [][NextDate]_vars

\* touch_main with -d options only, run to its return.
NextDateRun ==
  \/ FirstOptD
  \/ LaterOptD
  \/ \E paths \in SeqsUpTo(TargetPaths, MaxPaths) : EndOpts(paths)
  \/ \E f \in Faults : TouchPath(f)
  \/ Return

SpecDateRun == Init /\ [][NextDateRun]_vars

(***************************************************************************)
(* Properties                                                              *)
(***************************************************************************)
Sources == {TOUCH_FLAG_REF_FILE, TOUCH_FLAG_TIME, TOUCH_FLAG_DATE_TIME}

\* the time sources the options parsed so far have given
GivenSources == touch.flags \cap Sources

\* the calls of touch_path in the trace
PathCalls ==
  {k \in DOMAIN calls : calls[k][1] \in {"open", "creat", "futimens", "utimensat", "close"}}

\* the messages of the failures that precede the path loop
PreLoopMsgs ==
  {"getopt", "file... argument required", "-r, -t, and -d mutually exclusive",
   "invalid date_time", "failed to parse date_time", "malloc: frac_str",
   "failed to parse frac", "failed to set TZ", "mktime", "invalid time string",
   "stat reference file"}

PreLoopFailure == \E k \in DOMAIN stderr : stderr[k] \in PreLoopMsgs

\* the calls and the messages of the option parsed last
StepCalls == SubSeq(calls, Len(last.before.calls) + 1, Len(calls))

StepMsgs == SubSeq(stderr, Len(last.before.stderr) + 1, Len(stderr))

Omit(ts) == [ts EXCEPT !.tv_nsec = UTIME_OMIT]

\* C1: the current-time sentinel is in the pair handed to the path loop only
\* when none of -r, -t, -d was given; with exactly one source given and
\* resolved, the pair carries the resolved seconds and nanoseconds, but for
\* the leave-unchanged substitution of -a / -m, whatever the seconds are.
C1_SentinelOnlyWithoutSource ==
  pc = "loop" =>
    /\ (\E k \in 1..2 : touch.time_am[k].tv_nsec = UTIME_NOW) => GivenSources = {}
    /\ Cardinality(GivenSources) = 1 =>
         \A k \in 1..2 :
           /\ touch.time_am[k].tv_sec = resolved[k].tv_sec
           /\ touch.time_am[k].tv_nsec \in {resolved[k].tv_nsec, UTIME_OMIT}

C3_FailureBeforeLoop ==
  PreLoopFailure =>
    /\ touch.status_code = EXIT_FAILURE
    /\ pc # "loop"
    /\ PathCalls = {}
    /\ fs = FS0

C3_Witness ==
  /\ pc = "done"
  /\ Len(argv) > 0
  /\ stderr = <<"failed to set TZ", "failed to parse date_time">>
  /\ touch.status_code = EXIT_FAILURE

\* C4, as stated: with more than one of -r, -t, -d given, no resolver step
\* has run (no stat, no parsing, no change of the TZ context).
C4_NoResolverRuns ==
  Cardinality(GivenSources) > 1 => calls = <<>> /\ TZ = "local"

\* C4: an invocation that gives more than one of -r, -t, -d is rejected
\* before the timestamp policy and the path loop: it ends with EXIT_FAILURE
\* and no target is opened, created or changed (the resolvers of the given
\* sources have run while the options were parsed).
C4_RejectedBeforeTargets ==
  Cardinality(GivenSources) > 1 =>
    /\ pc # "loop"
    /\ PathCalls = {}
    /\ fs = FS0
    /\ pc = "done" => touch.status_code = EXIT_FAILURE

C4_Witness ==
  /\ pc = "done"
  /\ GivenSources = {TOUCH_FLAG_REF_FILE, TOUCH_FLAG_DATE_TIME}
  /\ stderr = <<"-r, -t, and -d mutually exclusive">>
  /\ TZ = "UTC"
  /\ \E k \in DOMAIN calls : calls[k][1] = "stat"

\* the paths touch_path was called with, in the order of the calls
Processed ==
  LET opens == SelectSeq(calls, LAMBDA c : c[1] = "open")
  IN  [k \in 1..Len(opens) |-> opens[k][2]]

\* C5: the paths processed so far are the first i operands, each once and
\* in the order of the arguments, whatever failed on the way, and a path
\* loop that has started ends with every operand processed.
C5_FailSoftLoop ==
  /\ [](Processed = SubSeq(argv, 1, i))
  /\ (pc = "loop") ~> (pc = "done" /\ i = Len(argv))

C5_Witness ==
  /\ pc = "done"
  /\ argv = <<PATH_TMP_FILE_2, PATH_TMP_FILE>>
  /\ i = 2
  /\ \E k \in DOMAIN calls : calls[k] = <<"utimensat", PATH_TMP_FILE_2, "EINVAL">>
  /\ \E k \in DOMAIN calls : calls[k] = <<"futimens", PATH_TMP_FILE, "0">>

\* C6: the status code is EXIT_FAILURE exactly when an error was reported,
\* EXIT_SUCCESS otherwise, and no step takes it back from EXIT_FAILURE.
C6_StatusIffError ==
  /\ [](touch.status_code = IF stderr = <<>> THEN EXIT_SUCCESS ELSE EXIT_FAILURE)
  /\ [][touch.status_code = EXIT_FAILURE => touch'.status_code = EXIT_FAILURE]_vars

C6_Witness ==
  /\ pc = "done"
  /\ touch.status_code = EXIT_FAILURE
  /\ stderr = <<"creat">>
  /\ argv = <<PATH_TMP_FILE, PATH_TMP_FILE_2>>
  /\ \E k \in DOMAIN calls : calls[k] = <<"utimensat", PATH_TMP_FILE_2, "0">>

\* [[CC]YY]MMDDhhmm[.SS]: 8 to 15 characters, a base length of 8, 10 or 12,
\* digits only but for the '.' that is third from the end when there is one.
LayoutValid(s) ==
  LET n    == Len(s)
      base == IF strchr(s, ".") THEN n - 3 ELSE n
  IN  /\ n >= MIN_TIME_LEN
      /\ n <= MAX_TIME_LEN
      /\ base \in {8, 10, 12}
      /\ \A k \in 1..n :
           IF strchr(s, ".") /\ k = n - 2 THEN s[k] = "." ELSE isdigit(s[k])

\* C7: -t accepts a string only in one of the layouts of
\* [[CC]YY]MMDDhhmm[.SS]; any other string is reported as an invalid time
\* string and no time is stored.
C7_OnlyLayoutsAccepted ==
  last.opt = "t" =>
    /\ StepMsgs = <<>> => LayoutValid(last.optarg)
    /\ ~LayoutValid(last.optarg) =>
         /\ StepMsgs = <<"invalid time string">>
         /\ touch.time_am = last.before.touch.time_am

\* the number written by the two characters of s from the k-th on
Num2(s, k) == DigitVal(s[k]) * 10 + DigitVal(s[k + 1])

\* The broken-down time the digits of a string of a valid layout stand for;
\* yr is the year of a string without year digits.
PositionalTm(s, yr) ==
  LET base == IF strchr(s, ".") THEN Len(s) - 3 ELSE Len(s)
      off  == base - 8
      yy   == Num2(s, off - 1)
  IN  [tm_year |-> IF base = 12 THEN Num2(s, 1) * 100 + yy - 1900
                   ELSE IF base = 10 THEN (IF yy >= 69 THEN yy ELSE yy + 100)
                   ELSE yr,
       tm_mon  |-> Num2(s, off + 1) - 1,
       tm_mday |-> Num2(s, off + 3),
       tm_hour |-> Num2(s, off + 5),
       tm_min  |-> Num2(s, off + 7),
       tm_sec  |-> IF strchr(s, ".") THEN Num2(s, off + 10) ELSE 0,
       tm_isdst |-> 0]

\* a string of a valid layout whose fields are in their ranges
ValidNumeric(s) ==
  /\ LayoutValid(s)
  /\ PositionalTm(s, 0).tm_mon \in 0..11
  /\ PositionalTm(s, 0).tm_mday \in 1..31
  /\ PositionalTm(s, 0).tm_hour \in 0..23
  /\ PositionalTm(s, 0).tm_min \in 0..59
  /\ PositionalTm(s, 0).tm_sec \in 0..60

OtherSep(s) ==
  [s EXCEPT ![DATE_TIME_T_POS + 1] = IF s[DATE_TIME_T_POS + 1] = "T" THEN " " ELSE "T"]

\* 'T' and ' ' resolve alike: whatever the library calls return, the string
\* with the other separator leaves the same status and the same pair.
SeparatorsAgree ==
  CharAt(last.optarg, DATE_TIME_T_POS) \in {"T", " "} =>
    \A o \in Oracles :
      touch_parse_date_time(last.before, last.optarg, o).touch
        = touch_parse_date_time(last.before, OtherSep(last.optarg), o).touch

\* C9: the length and separator validation of -d lets through exactly the
\* strings of MIN_DATE_TIME to MAX_DATE_TIME characters, both included, with
\* 'T' or ' ' at DATE_TIME_T_POS; 'T' and ' ' resolve alike.
C9_LengthInclusive ==
  last.opt = "d" =>
    /\ StepCalls # <<>> <=>
         /\ Len(last.optarg) >= MIN_DATE_TIME
         /\ Len(last.optarg) <= MAX_DATE_TIME
         /\ CharAt(last.optarg, DATE_TIME_T_POS) \in {"T", " "}
    /\ SeparatorsAgree

\* the place of a call in the calls of the option parsed last (0: not made)
StepCall(name) ==
  IF \E k \in DOMAIN StepCalls : StepCalls[k] = <<name>>
  THEN CHOOSE k \in DOMAIN StepCalls : StepCalls[k] = <<name>>
  ELSE 0

\* C10: when a -d string with the 'Z' marker reaches mktime, setenv has set
\* the TZ context to UTC before, the seconds are those of the broken-down
\* time read as UTC, and the context stays UTC when the parser returns and
\* ever after; a string without 'Z' leaves the TZ context as it was and is
\* resolved in it.
C10_ZoneBeforeEpoch ==
  last.opt = "d" =>
    /\ (strchr(last.optarg, "Z") /\ StepCall("mktime") > 0) =>
         /\ StepCall("setenv") > 0
         /\ StepCall("setenv") < StepCall("mktime")
         /\ TZ = "UTC"
         /\ \A k \in 1..2 : touch.time_am[k].tv_sec = mktime(tm, "UTC")
    /\ (StepCall("setenv") > 0 /\ "failed to set TZ" \notin {StepMsgs[k] : k \in DOMAIN StepMsgs})
         => TZ = "UTC"
    /\ last.before.TZ = "UTC" => TZ = "UTC"
    /\ ~strchr(last.optarg, "Z") =>
         /\ TZ = last.before.TZ
         /\ StepCall("setenv") = 0
         /\ StepCall("mktime") > 0 =>
              \A k \in 1..2 : touch.time_am[k].tv_sec = mktime(tm, last.before.TZ)

C10_Witness ==
  /\ last.opt = "d"
  /\ last.optarg = IsoStr(2007, 11, 12, "T", 10, 15, 30) \o <<"Z">>
  /\ last.before.TZ = "local"
  /\ TZ = "UTC"
  /\ StepCalls = <<<<"strptime">>, <<"setenv">>, <<"mktime">>>>
  /\ touch.time_am[1].tv_sec = TimeT(DaysFromCivil(2007, 11, 12), 10 * 3600 + 15 * 60 + 30)
  /\ stderr = <<>>

\* C11, as stated: a -d string rejected for its format (by the validation,
\* by strptime or by the trailing-character check) has made no call that
\* changes the environment: setenv is not called and the TZ context is as
\* it was before the parse.  Only parses that began without an earlier
\* failure are considered, so that the rejection is of the string itself.
C11_FormatFailureNoEffect ==
  (/\ last.opt = "d"
   /\ last.before.touch.status_code = EXIT_SUCCESS
   /\ StepMsgs \in {<<"invalid date_time">>, <<"failed to parse date_time">>}) =>
    /\ StepCall("setenv") = 0
    /\ TZ = last.before.TZ

\* C11: a -d string rejected by the length and separator validation has
\* made no call at all; one rejected by strptime or by the trailing-character
\* check has not called mktime, and has called setenv only if a 'Z' was read
\* before the trailing characters: then the TZ context is UTC from there on,
\* otherwise it is as it was before the parse.
C11_FormatFailureEffects ==
  last.opt = "d" =>
    /\ StepMsgs = <<"invalid date_time">> =>
         /\ StepCalls = <<>>
         /\ TZ = last.before.TZ
    /\ StepMsgs = <<"failed to parse date_time">> =>
         /\ StepCall("mktime") = 0
         /\ StepCall("setenv") > 0 => (strchr(last.optarg, "Z") /\ TZ = "UTC")
         /\ StepCall("setenv") = 0 => TZ = last.before.TZ

C11_Witness ==
  /\ last.opt = "d"
  /\ last.optarg = IsoStr(2007, 11, 12, "T", 10, 15, 30) \o <<"Z", "1">>
  /\ StepMsgs = <<"failed to parse date_time">>
  /\ StepCalls = <<<<"strptime">>, <<"setenv">>>>
  /\ last.before.TZ = "local"
  /\ TZ = "UTC"

\* The cursor at which touch_parse_date_time hands a string that passed the
\* validation to touch_parse_frac: where strptime stopped (-1: the string
\* is not handed on).
DateTimeCursor(s) ==
  IF date_time_invalid(s) THEN -1
  ELSE Let(strptime(s, [FmtDateTime EXCEPT ![8 + 1] = CharAt(s, DATE_TIME_T_POS)],
                    [TmZero EXCEPT !.tm_isdst = -1]),
           LAMBDA p : IF p.ok THEN p.rp ELSE -1)

\* The number of digits of s from position p on.
RECURSIVE DigitRun(_, _)
DigitRun(s, p) == IF isdigit(CharAt(s, p)) THEN 1 + DigitRun(s, p + 1) ELSE 0

\* The integer written by the k digits of s from position p on.
RECURSIVE DecimalOf(_, _, _)
DecimalOf(s, p, k) ==
  IF k = 0 THEN 0 ELSE 10 * DecimalOf(s, p, k - 1) + DigitVal(CharAt(s, p + k - 1))

\* 0.d1...dd * 10^9 rounded toward zero, the d digits starting at p: the
\* first nine digits, zero-padded on the right.
TruncatedNsec(s, p, d) ==
  IF d >= 9 THEN DecimalOf(s, p, 9) ELSE DecimalOf(s, p, d) * 10^(9 - d)

\* C12, as stated: for a -d string handed to touch_parse_frac: without a
\* separator at the cursor nothing is consumed and the nanoseconds are 0;
\* with a separator and d digits, 1 <= d <= MAX_FRAC_CHAR_LEN - 1, both
\* entries get 0.d1...dd * 10^9 rounded toward zero and the cursor ends just
\* after the last digit.
C12_FracExact ==
  (last.opt = "d" /\ DateTimeCursor(last.optarg) >= 0) =>
    LET s  == last.optarg
        tp == DateTimeCursor(last.optarg)
        d  == DigitRun(last.optarg, DateTimeCursor(last.optarg) + 1)
    IN  IF CharAt(s, tp) \notin {".", ","}
        THEN /\ touch_parse_frac(last.before, s, tp, OraclesOk).time_parse = tp
             /\ StepCall("strtod") = 0
             /\ \A k \in 1..2 : touch.time_am[k].tv_nsec = 0
        ELSE (d \in 1..(MAX_FRAC_CHAR_LEN - 1) /\ StepCall("strtod") > 0) =>
               /\ touch_parse_frac(last.before, s, tp, OraclesOk).time_parse = tp + 1 + d
               /\ \A k \in 1..2 : touch.time_am[k].tv_nsec = TruncatedNsec(s, tp + 1, d)

\* C13: whenever the path loop runs, that is whenever the pair is handed to
\* touch_path, the nanoseconds of both entries are in [0, 999999999] or are
\* one of the sentinels UTIME_NOW and UTIME_OMIT.
C13_NsecInRange ==
  pc = "loop" => \A k \in 1..2 : NsecValid(touch.time_am[k].tv_nsec)

\* A -d string handed to touch_parse_frac with a separator at the cursor and
\* no digit after it.
EmptyFrac(s) ==
  /\ DateTimeCursor(s) >= 0
  /\ CharAt(s, DateTimeCursor(s)) \in {".", ","}
  /\ ~isdigit(CharAt(s, DateTimeCursor(s) + 1))

\* C14, as stated: a separator followed by no digit makes the resolver fail,
\* and the failure is the one of the numeric conversion of the bare ".":
\* whenever the conversion was attempted, "failed to parse frac" is reported.
C14_EmptyFracIsConversionError ==
  (last.opt = "d" /\ EmptyFrac(last.optarg) /\ StepCall("strtod") > 0) =>
    /\ touch.status_code = EXIT_FAILURE
    /\ StepMsgs # <<>>
    /\ StepMsgs[1] = "failed to parse frac"

\* C14: a separator followed by no digit makes the resolver fail before the
\* epoch resolution, never a success with zero nanoseconds.  The numeric
\* conversion reports the failure only where strtod sets errno for the bare
\* "." (the cursor is then past the separator, and a 'Z' there is still
\* read); where it does not, the conversion yields 0 without an error, the
\* cursor is left on the separator, and the failure is the one of the
\* trailing-character check.
C14_EmptyFracFails ==
  (last.opt = "d" /\ EmptyFrac(last.optarg)) =>
    /\ touch.status_code = EXIT_FAILURE
    /\ StepCall("mktime") = 0
    /\ StepCall("setenv") > 0 => StepMsgs[1] = "failed to parse frac"
    /\ \A k \in 1..2 : touch.time_am[k].tv_sec = last.before.touch.time_am[k].tv_sec
    /\ StepMsgs \in {<<"failed to parse frac", "failed to parse date_time">>,
                     <<"failed to parse frac", "failed to set TZ",
                       "failed to parse date_time">>,
                     <<"failed to parse date_time">>,
                     <<"malloc: frac_str", "failed to parse date_time">>}
    /\ \A o \in Oracles :
         o.malloc_ok =>
           LET f == touch_parse_frac(last.before, last.optarg,
                                     DateTimeCursor(last.optarg), o)
               msgs == SubSeq(f.w.stderr, Len(last.before.stderr) + 1, Len(f.w.stderr))
           IN  IF o.strtod_einval
               THEN msgs = <<"failed to parse frac">>
               ELSE /\ msgs = <<>>
                    /\ f.time_parse = DateTimeCursor(last.optarg)
                    /\ \A k \in 1..2 : f.w.touch.time_am[k].tv_nsec = 0

C14_Witness ==
  /\ last.opt = "d"
  /\ last.optarg = IsoStr(2007, 11, 12, "T", 10, 15, 30) \o <<",", "a", "0", "0", "2">>
  /\ StepCalls = <<<<"strptime">>, <<"malloc">>, <<"strtod">>>>
  /\ StepMsgs = <<"failed to parse date_time">>
  /\ touch.status_code = EXIT_FAILURE

\* C15: after an accepted -d string without a fractional part, whatever
\* options were parsed before it, the nanoseconds of both entries are 0 and
\* both entries hold the same seconds.
C15_NoFracZeroNsec ==
  (/\ last.opt = "d"
   /\ StepMsgs = <<>>
   /\ DateTimeCursor(last.optarg) >= 0
   /\ CharAt(last.optarg, DateTimeCursor(last.optarg)) \notin {".", ","}) =>
    /\ \A k \in 1..2 : touch.time_am[k].tv_nsec = 0
    /\ touch.time_am[1].tv_sec = touch.time_am[2].tv_sec

\* the targets whose timestamps were set without an error
Touched ==
  {calls[k][2] : k \in {j \in DOMAIN calls :
                          /\ calls[j][1] \in {"futimens", "utimensat"}
                          /\ calls[j][3] = "0"}}

\* C16: when the stat of the -r file fails the invocation fails, the pair
\* is left unwritten and no target is touched; otherwise the pair is the
\* access and modification timestamps of the file, seconds and nanoseconds,
\* and in an invocation with -r as its only time option every target whose
\* timestamps were set has the timestamps of the reference file.
C16_ReferenceCopied ==
  /\ (\E k \in DOMAIN stderr : stderr[k] = "stat reference file") =>
       (touch.status_code = EXIT_FAILURE /\ PathCalls = {})
  /\ (last.opt = TOUCH_FLAG_REF_FILE /\ pc = "getopt") =>
       IF fs[last.optarg].exists
       THEN /\ touch.time_am = <<fs[last.optarg].st_atim, fs[last.optarg].st_mtim>>
            /\ StepMsgs = <<>>
       ELSE /\ touch.time_am = last.before.touch.time_am
            /\ StepMsgs = <<"stat reference file">>
  /\ (/\ last.opt = TOUCH_FLAG_REF_FILE
      /\ touch.flags \subseteq {TOUCH_FLAG_REF_FILE, TOUCH_FLAG_NO_CREATE}) =>
       \A p \in Touched :
         /\ fs[p].st_atim = fs[last.optarg].st_atim
         /\ fs[p].st_mtim = fs[last.optarg].st_mtim

\* the calls and the messages that a step adds
NewCalls == SubSeq(calls', Len(calls) + 1, Len(calls'))

NewMsgs == SubSeq(stderr', Len(stderr) + 1, Len(stderr'))

\* C17: in every step of the path loop, on the target p: a file is created
\* only after the open failed because p does not exist and -c is not set,
\* and the timestamps are then applied to the new file; with -c the absent
\* target is skipped: it stays absent and nothing is reported; a target that
\* exists is not created again; an open that fails for another reason is
\* reported, and nothing is created or changed.
C17_CreateOnlyWhenAbsent ==
  [][(pc = "loop" /\ i' = i + 1) =>
       LET p == argv[i + 1]
           no_create == TOUCH_FLAG_NO_CREATE \in touch.flags
       IN  /\ NewCalls # <<>>
           /\ NewCalls[1][1] = "open"
           /\ NewCalls[1][2] = p
           /\ \A q \in DOMAIN fs : q # p => fs'[q] = fs[q]
           /\ (\E k \in DOMAIN NewCalls : NewCalls[k][1] = "creat") =>
                (NewCalls[1][3] = "ENOENT" /\ ~no_create /\ ~fs[p].exists)
           /\ NewCalls[1][3] = "ENOENT" =>
                /\ ~fs[p].exists
                /\ IF no_create
                   THEN /\ NewCalls = <<<<"open", p, "ENOENT">>>>
                        /\ NewMsgs = <<>>
                        /\ touch' = touch
                        /\ fs' = fs
                   ELSE /\ Len(NewCalls) >= 2
                        /\ NewCalls[2][1] = "creat"
                        /\ NewCalls[2][2] = p
                        /\ IF NewCalls[2][3] = "fd"
                           THEN /\ fs'[p].exists
                                /\ Len(NewCalls) >= 3
                                /\ NewCalls[3][1] = "futimens"
                                /\ NewCalls[3][2] = p
                                /\ NewCalls[3][3] = "0" =>
                                     fs'[p] = utimens(File(Now, Now), touch.time_am)
                           ELSE /\ fs' = fs
                                /\ NewMsgs = <<"creat">>
           /\ NewCalls[1][3] = "fd" => (fs[p].exists /\ fs'[p].exists)
           /\ NewCalls[1][3] \notin {"ENOENT", "fd"} =>
                /\ NewCalls = <<<<"open", p, NewCalls[1][3]>>>>
                /\ NewMsgs = <<"open">>
                /\ touch'.status_code = EXIT_FAILURE
                /\ fs' = fs]_vars

C17_Witness ==
  /\ pc = "done"
  /\ TOUCH_FLAG_NO_CREATE \in touch.flags
  /\ argv = <<PATH_TMP_FILE, PATH_TMP_FILE_2>>
  /\ ~fs[PATH_TMP_FILE].exists
  /\ touch.status_code = EXIT_SUCCESS
  /\ calls = <<<<"open", PATH_TMP_FILE, "ENOENT">>,
               <<"open", PATH_TMP_FILE_2, "fd">>,
               <<"utimensat", PATH_TMP_FILE_2, "0">>,
               <<"close", PATH_TMP_FILE_2, "0">>>>

Sentinel(n) == n = UTIME_NOW \/ n = UTIME_OMIT

\* C18: no step of the path loop changes the pair or the flags, so every
\* target is given the same pair: each target whose timestamps were set
\* holds, in every entry of the pair that is not a sentinel, that entry, and
\* two targets set with a pair without sentinels hold the same timestamps.
C18_PairFixedInLoop ==
  /\ [][pc = "loop" => (touch'.time_am = touch.time_am /\ touch'.flags = touch.flags)]_vars
  /\ [](\A p \in Touched :
          /\ ~Sentinel(touch.time_am[1].tv_nsec) => fs[p].st_atim = touch.time_am[1]
          /\ ~Sentinel(touch.time_am[2].tv_nsec) => fs[p].st_mtim = touch.time_am[2])
  /\ []((\A k \in 1..2 : ~Sentinel(touch.time_am[k].tv_nsec)) =>
          \A p, q \in Touched : fs[p] = fs[q])

C18_Witness ==
  /\ pc = "done"
  /\ argv = <<PATH_TMP_FILE, PATH_TMP_FILE_2>>
  /\ Touched = {PATH_TMP_FILE, PATH_TMP_FILE_2}
  /\ \A k \in 1..2 : ~Sentinel(touch.time_am[k].tv_nsec)
  /\ touch.time_am[1] # touch.time_am[2]
  /\ fs[PATH_TMP_FILE] = fs[PATH_TMP_FILE_2]
  /\ fs[PATH_TMP_FILE_2] # FS0[PATH_TMP_FILE_2]

\* What may follow the cursor p in an accepted -d string: a separator with 1
\* to MAX_FRAC_CHAR_LEN - 1 digits or nothing, then 'Z' or nothing, then
\* the end of the string.
TailAccepted(s, p) ==
  LET d == IF CharAt(s, p) \in {".", ","} THEN DigitRun(s, p + 1) ELSE -1
      z == IF d = -1 THEN p ELSE p + 1 + d
  IN  /\ d = -1 \/ d \in 1..(MAX_FRAC_CHAR_LEN - 1)
      /\ CharAt(s, IF CharAt(s, z) = "Z" THEN z + 1 ELSE z) = NUL

\* C19: a -d string on which strptime succeeded is accepted only if nothing
\* but a fraction of at most MAX_FRAC_CHAR_LEN - 1 digits and one 'Z' follows
\* the seconds.  Any other remainder fails with "failed to parse date_time"
\* before the epoch resolution: the digits of a longer fraction are not
\* dropped, they are left at the cursor and fail the check, and so do a
\* second 'Z' and a digit after the 'Z'.
C19_TrailingRejected ==
  (last.opt = "d" /\ DateTimeCursor(last.optarg) >= 0) =>
    IF TailAccepted(last.optarg, DateTimeCursor(last.optarg))
    THEN \A k \in DOMAIN StepMsgs :
           StepMsgs[k] \in {"malloc: frac_str", "failed to set TZ",
                            "failed to parse date_time", "mktime"}
    ELSE /\ StepMsgs # <<>>
         /\ StepMsgs[Len(StepMsgs)] = "failed to parse date_time"
         /\ touch.status_code = EXIT_FAILURE
         /\ StepCall("mktime") = 0
         /\ \A k \in 1..2 : touch.time_am[k].tv_sec = last.before.touch.time_am[k].tv_sec

C19_Witness ==
  /\ last.opt = "d"
  /\ last.optarg = IsoStr(2007, 11, 12, "T", 10, 15, 30) \o <<",">>
                     \o Digits(MAX_FRAC_CHAR_LEN)
  /\ StepCalls = <<<<"strptime">>, <<"malloc">>, <<"strtod">>>>
  /\ StepMsgs = <<"failed to parse date_time">>
  /\ touch.time_am[1].tv_nsec = 123456789

\* The option parsed last is a -d or a -t whose parse reported a failure.
ParseFailed ==
  /\ last.opt \in {TOUCH_FLAG_DATE_TIME, TOUCH_FLAG_TIME}
  /\ \E k \in DOMAIN StepMsgs :
       StepMsgs[k] \in {"invalid date_time", "failed to parse date_time",
                        "malloc: frac_str", "failed to parse frac", "failed to set TZ",
                        "mktime", "invalid time string"}

\* C20, as stated: when the parse of a -d or -t argument fails, neither the
\* seconds nor the nanoseconds of the pair have been written: the pair is
\* what it was before the parse.
C20_FailedParseWritesNothing ==
  ParseFailed =>
    touch.time_am = last.before.touch.time_am

\* C20: when the parse of a -d or -t argument fails, the seconds are as
\* before unless the failure is that of mktime, which stores its result
\* (time_t)-1 in both entries; the nanoseconds are as before unless the
\* fraction of a -d argument was converted before the failure, which stores
\* them in both entries.  The invocation then fails without a call of
\* touch_path, so a pair written by a failed parse is never applied.
C20_FailedParseWrites ==
  ParseFailed =>
    /\ touch.status_code = EXIT_FAILURE
    /\ pc # "loop"
    /\ PathCalls = {}
    /\ \A k \in 1..2 :
         touch.time_am[k].tv_sec =
           IF StepCall("mktime") > 0 THEN T_MINUS1
           ELSE last.before.touch.time_am[k].tv_sec
    /\ touch.time_am[1].tv_nsec = touch.time_am[2].tv_nsec
         \/ \A k \in 1..2 : touch.time_am[k].tv_nsec = last.before.touch.time_am[k].tv_nsec
    /\ (\E k \in 1..2 : touch.time_am[k].tv_nsec # last.before.touch.time_am[k].tv_nsec) =>
         /\ last.opt = TOUCH_FLAG_DATE_TIME
         /\ StepCall("strtod") > 0
         /\ StepMsgs[1] # "failed to parse frac"

C20_Witness ==
  /\ last.opt = TOUCH_FLAG_DATE_TIME
  /\ last.optarg = IsoStr(2007, 11, 12, " ", 10, 15, 30) \o <<",", "0", "0", "2", "Z">>
  /\ StepMsgs = <<"failed to set TZ", "failed to parse date_time">>
  /\ last.before.touch.time_am[1].tv_nsec = 0
  /\ touch.time_am[1].tv_nsec = 2000000
  /\ touch.time_am[2].tv_nsec = 2000000
  /\ touch.time_am[1].tv_sec = last.before.touch.time_am[1].tv_sec

\* C21: a -d or -t argument that passes every check and whose broken-down
\* time is epoch second -1 under the TZ context (1969-12-31 23:59:59 UTC)
\* is reported as a failure of mktime: the status is EXIT_FAILURE, the path
\* loop is not entered and touch_path is not called.
C21_MinusOneIsFailure ==
  (/\ last.opt \in {TOUCH_FLAG_DATE_TIME, TOUCH_FLAG_TIME}
   /\ StepCall("mktime") > 0
   /\ mktime(tm, TZ) = T_MINUS1) =>
    /\ \E k \in DOMAIN StepMsgs : StepMsgs[k] = "mktime"
    /\ touch.status_code = EXIT_FAILURE
    /\ pc # "loop"
    /\ PathCalls = {}
    /\ fs = FS0

C21_Witness ==
  /\ pc = "done"
  /\ last.opt = TOUCH_FLAG_DATE_TIME
  /\ last.optarg = IsoStr(1969, 12, 31, "T", 23, 59, 59) \o <<"Z">>
  /\ TZ = "UTC"
  /\ tm.tm_year = 69 /\ tm.tm_mon = 11 /\ tm.tm_mday = 31
  /\ tm.tm_hour = 23 /\ tm.tm_min = 59 /\ tm.tm_sec = 59
  /\ stderr = <<"mktime">>
  /\ argv = <<PATH_TMP_FILE>>
  /\ touch.status_code = EXIT_FAILURE
  /\ ~fs[PATH_TMP_FILE].exists

\* slen_minus_sec: the length of a -t string without its ".SS"
BaseLen(s) == IF strchr(s, ".") THEN Len(s) - 3 ELSE Len(s)

\* C22: an accepted -t string without year digits (MMDDhhmm, with or without
\* .SS) leaves tm_year at 0, the value of the zeroed struct tm: the seconds
\* stored are those of the month, day and time of the string in the year
\* 1900, a day of 1900 and not of the year of the clock.  tm_year is other
\* than 0 only when the string has YY or CCYY digits, and is then the year
\* those digits stand for.
C22_NoYearIs1900 ==
  (last.opt = TOUCH_FLAG_TIME /\ StepCall("mktime") > 0) =>
    /\ BaseLen(last.optarg) < 10 =>
         LET day  == DaysFromCivil(1900, tm.tm_mon + 1, tm.tm_mday)
             secs == tm.tm_hour * 3600 + tm.tm_min * 60 + tm.tm_sec + ZoneWestSec(TZ)
         IN  /\ tm.tm_year = 0
             /\ day >= DaysFromCivil(1900, 1, 1)
             /\ day < DaysFromCivil(1901, 1, 1)
             /\ day < Now.tv_sec[1]
             /\ \A k \in 1..2 :
                  touch.time_am[k].tv_sec
                    = TimeT(day + secs \div SecPerDay, secs % SecPerDay)
    /\ tm.tm_year # 0 => BaseLen(last.optarg) >= 10
    /\ (LayoutValid(last.optarg) /\ BaseLen(last.optarg) >= 10) =>
         tm.tm_year = PositionalTm(last.optarg, 0).tm_year

C22_Witness ==
  /\ last.opt = TOUCH_FLAG_TIME
  /\ last.optarg = D2(11) \o D2(12) \o D2(10) \o D2(15)
  /\ StepMsgs = <<>>
  /\ tm.tm_year = 0
  /\ tm.tm_mon = 10
  /\ tm.tm_mday = 12
  /\ touch.time_am[1].tv_sec = TimeT(DaysFromCivil(1900, 11, 12), 15 * 3600 + 15 * 60)
  /\ touch.status_code = EXIT_SUCCESS

\* the places in a trace of calls where a descriptor is returned, and where
\* one is closed
Opened(cs) ==
  {k \in DOMAIN cs : cs[k][1] \in {"open", "creat"} /\ cs[k][3] = "fd"}

Closed(cs) == {k \in DOMAIN cs : cs[k][1] = "close"}

\* C23: every call of touch_path obtains at most one descriptor, from open
\* or from creat, and closes it exactly once, as its last call and after
\* whatever futimens or utimensat returned; without a descriptor close is
\* not called.  So no descriptor is open between two steps of the path
\* loop, nor when touch_main returns.
C23_DescriptorsClosed ==
  /\ [](Cardinality(Opened(calls)) = Cardinality(Closed(calls)))
  /\ [][(pc = "loop" /\ i' = i + 1) =>
          /\ Cardinality(Opened(NewCalls)) <= 1
          /\ Cardinality(Closed(NewCalls)) = Cardinality(Opened(NewCalls))
          /\ \A k \in Closed(NewCalls) :
               /\ k = Len(NewCalls)
               /\ NewCalls[k][2] = argv[i + 1]
               /\ \E j \in Opened(NewCalls) : j < k /\ NewCalls[j][2] = argv[i + 1]]_vars

C23_Witness ==
  /\ pc = "done"
  /\ argv = <<PATH_TMP_FILE, PATH_TMP_FILE_2>>
  /\ calls = <<<<"open", PATH_TMP_FILE, "ENOENT">>,
               <<"creat", PATH_TMP_FILE, "fd">>,
               <<"futimens", PATH_TMP_FILE, "EINVAL">>,
               <<"close", PATH_TMP_FILE, "0">>,
               <<"open", PATH_TMP_FILE_2, "fd">>,
               <<"utimensat", PATH_TMP_FILE_2, "0">>,
               <<"close", PATH_TMP_FILE_2, "0">>>>
  /\ touch.status_code = EXIT_FAILURE
=============================================================================
